---- MODULE Spec2Model ----
(***************************************************************************)
(* The graphics context of graphics.c: the render command queue and the    *)
(* light queue of struct Graphics, the operations that fill them, the view *)
(* transform, and the two passes of render_graphics, seen through a GL     *)
(* driver that records the calls of the latest operation.  assert is the   *)
(* assert of a build that keeps assertions: a failed one ends the process. *)
(***************************************************************************)
EXTENDS Integers, Sequences, FiniteSets, TLC

(* ------------------------------------------------------------------ *)
(* Defines (graphics.c lines 23-26)                                   *)
(* ------------------------------------------------------------------ *)
MAX_RENDER_COMMANDS == 1024
MAX_LIGHTS == 64

(* ------------------------------------------------------------------ *)
(* Bounds on the caller, not on the program                           *)
(* ------------------------------------------------------------------ *)
\* submissions of draw commands a caller of Spec makes between two renders
MaxSubmit == 2
\* submissions of lights a caller of Spec makes between two renders
MaxLightSubmit == 1
\* draw commands a caller of Spec submits over a whole run (each gets a serial)
MaxSubmissions == 3

(* ------------------------------------------------------------------ *)
(* Values                                                             *)
(* ------------------------------------------------------------------ *)
\* a null Mesh* or Texture*: it has no member to read
NULL == [null |-> TRUE]
\* the all-zero bytes calloc leaves in a Transform, a Light, a Mat4
ZeroBytes == [zero_bytes |-> TRUE]

\* GL object names; name 0 of a framebuffer is the window-system target
FBO_ZERO == "framebuffer:0"
TEXTURE_ZERO == "texture:0"
HostFramebuffers == {FBO_ZERO, "framebuffer:host_target"}

\* glCheckFramebufferStatus results switched on by _setup_framebuffer
FramebufferStatuses ==
    { "GL_FRAMEBUFFER_COMPLETE",
      "GL_FRAMEBUFFER_INCOMPLETE_ATTACHMENT",
      "GL_FRAMEBUFFER_INCOMPLETE_MISSING_ATTACHMENT",
      "GL_FRAMEBUFFER_INCOMPLETE_DIMENSIONS",
      "GL_FRAMEBUFFER_UNSUPPORTED",
      "GL_FRAMEBUFFER_UNDEFINED" }

LinkStatuses == {"GL_TRUE", "GL_FALSE"}

\* the two clear colours of render_graphics
kOffscreenClearColor == <<"0.0f", "0.2f", "0.4f", "1.0f">>
kCompositeClearColor == <<"1.0f", "0.0f", "1.0f", "1.0f">>

\* <width, height> pairs a context is created with
Sizes == { <<800, 600>>, <<4, 3>>, <<600, 600>> }

\* Transforms a caller passes
transform_zero == [position |-> "origin", scale |-> "one"]
Transforms == { transform_zero, [position |-> "p1", scale |-> "two"] }

\* Mesh objects (gl_create_mesh / gl_load_mesh results) and Texture objects
kCubeMesh == [vertex_buffer |-> "vb:cube", index_buffer |-> "ib:cube"]
kQuadMesh == [vertex_buffer |-> "vb:quad", index_buffer |-> "ib:quad"]
kLoadedMesh == [vertex_buffer |-> "vb:file", index_buffer |-> "ib:file"]
TextureA == [texture |-> "texture:a"]
TextureB == [texture |-> "texture:b"]

\* the draw commands a caller of Spec submits: they differ in every field
DrawInputs ==
    { [mesh |-> kCubeMesh, diffuse |-> TextureA, transform |-> transform_zero],
      [mesh |-> kLoadedMesh, diffuse |-> TextureB,
       transform |-> [position |-> "p1", scale |-> "two"]] }
\* the one draw command the caller of SpecCap repeats
FillDraw == [mesh |-> kCubeMesh, diffuse |-> TextureA, transform |-> transform_zero]

LightInputs == { [direction |-> "down"], [direction |-> "left"] }
FillLight == [direction |-> "down"]

(* ------------------------------------------------------------------ *)
(* vec_math: the matrix functions graphics.c calls, as terms          *)
(* ------------------------------------------------------------------ *)
transform_get_matrix(t) == [fn |-> "transform_get_matrix", arg |-> t]
mat4_inverse(m) == [fn |-> "mat4_inverse", arg |-> m]

RECURSIVE gcd(_, _)
gcd(a, b) == IF b = 0 THEN a ELSE gcd(b, a % b)

\* width/(float)height: the quotient, as a fraction in lowest terms
aspect_ratio(width, height) ==
    LET g == gcd(width, height) IN <<width \div g, height \div g>>

mat4_perspective_fov(fov, aspect, nearPlane, farPlane) ==
    [fn |-> "mat4_perspective_fov", fov |-> fov, aspect |-> aspect,
     nearPlane |-> nearPlane, farPlane |-> farPlane]

(* ------------------------------------------------------------------ *)
(* State                                                              *)
(* ------------------------------------------------------------------ *)
VARIABLES
    phase,          \* "uncreated", "ready", or "aborted" (an assertion failed)
    fatal,          \* which assertion failed: "none", "link", "commands", "lights"
    graphics,       \* struct Graphics
    gl,             \* the GL state graphics.c reads and writes
    gl_calls,       \* the GL calls of the latest operation, as the driver saw them
    diagnostic,     \* what _setup_framebuffer logged about the status
    history         \* what the caller did, kept for the properties

vars == <<phase, fatal, graphics, gl, gl_calls, diagnostic, history>>

CommandSlots == 0 .. (MAX_RENDER_COMMANDS - 1)
LightSlots == 0 .. (MAX_LIGHTS - 1)

\* calloc(1, sizeof(*graphics))
CallocGraphics ==
    [ width |-> 0, height |-> 0,
      program |-> "program:0", fullscreen_program |-> "program:0",
      color_renderbuffer |-> TEXTURE_ZERO, depth_renderbuffer |-> TEXTURE_ZERO,
      framebuffer |-> FBO_ZERO,
      projection_matrix |-> ZeroBytes,
      view_transform |-> ZeroBytes,
      cube_mesh |-> NULL, quad_mesh |-> NULL,
      commands |-> [i \in CommandSlots |->
                       [transform |-> ZeroBytes, mesh |-> NULL, diffuse |-> NULL]],
      num_commands |-> 0,
      lights |-> [i \in LightSlots |-> ZeroBytes],
      num_lights |-> 0 ]

\* no render has been recorded by the latest operation
NoFrame ==
    [ commands |-> 0, lights |-> 0, submitted |-> <<>>, binding |-> "none",
      repeat |-> FALSE, context_unchanged |-> FALSE, view |-> <<>>,
      views_set |-> "none" ]

NoHistory ==
    [ created_size |-> <<0, 0>>,   \* the <width, height> create_graphics was given
      created_status |-> "GL_FRAMEBUFFER_COMPLETE",  \* what the completeness check said
      created_links |-> <<"GL_TRUE", "GL_TRUE">>,    \* what the two links said
      created_projection |-> ZeroBytes, \* the projection matrix create_graphics stored
      command_submissions |-> 0,   \* add_render_command calls since the latest render
      light_submissions |-> 0,     \* add_directional_light calls since the latest render
      submitted |-> <<>>,          \* the commands of those calls, in order
      serial |-> 0,                \* serial of the latest submitted command
      serial_at_render |-> 0,      \* serial when the latest render began
      slot_serial |-> <<>>,        \* slot index -> serial of the command stored there
      draw_count |-> <<>>,         \* serial -> number of draws of that command so far
      rendered |-> FALSE,          \* render_graphics has been called
      last_view_set |-> <<>>,      \* <<the latest argument of set_view_transform>>,
                                   \* empty before the first call
      views_set |-> "none",        \* set_view_transform calls since the latest render:
                                   \* "none", "one" or "many"
      frame |-> NoFrame ]          \* what the latest operation, a render, started from

(* ------------------------------------------------------------------ *)
(* Internal functions                                                 *)
(* ------------------------------------------------------------------ *)
\* Faulty variant: an incomplete framebuffer ends the process.
_setup_framebuffer_fatal(framebuffer_status) ==
    [ returns |-> (framebuffer_status = "GL_FRAMEBUFFER_COMPLETE"),
      diagnostic |-> IF framebuffer_status = "GL_FRAMEBUFFER_COMPLETE"
                       THEN "none" ELSE "Framebuffer incomplete",
      color_renderbuffer |-> "texture:color",
      depth_renderbuffer |-> "texture:depth",
      framebuffer |-> "framebuffer:offscreen",
      framebuffer_binding |-> "framebuffer:offscreen",
      texture_binding |-> "texture:depth",
      calls |-> << [call |-> "glBindFramebuffer", framebuffer |-> "framebuffer:offscreen"] >> ]

\* The switch on the completeness status: every case logs (or not) and breaks.
_setup_framebuffer(framebuffer_status) ==
    [ returns |-> TRUE,
      diagnostic |->
          CASE framebuffer_status = "GL_FRAMEBUFFER_COMPLETE" -> "none"
            [] framebuffer_status = "GL_FRAMEBUFFER_INCOMPLETE_ATTACHMENT" ->
                   "Attachment Point Unconnected"
            [] framebuffer_status = "GL_FRAMEBUFFER_INCOMPLETE_MISSING_ATTACHMENT" ->
                   "Missing Attachment"
            [] framebuffer_status = "GL_FRAMEBUFFER_INCOMPLETE_DIMENSIONS" ->
                   "Dimensions do not match"
            [] framebuffer_status = "GL_FRAMEBUFFER_UNSUPPORTED" ->
                   "Unsupported Framebuffer Configuration"
            [] OTHER -> "Unkown Framebuffer Object Failure",
      color_renderbuffer |-> "texture:color",
      depth_renderbuffer |-> "texture:depth",
      framebuffer |-> "framebuffer:offscreen",
      \* lines 135-136: both bindings are reset to 0 before returning
      framebuffer_binding |-> FBO_ZERO,
      texture_binding |-> TEXTURE_ZERO,
      calls |-> << [call |-> "glBindFramebuffer", framebuffer |-> "framebuffer:offscreen"],
                   [call |-> "glBindFramebuffer", framebuffer |-> FBO_ZERO] >> ]

\* assert(link_status != GL_FALSE) inside if(link_status == GL_FALSE)
_create_program(name, link_status) ==
    [ asserted |-> (link_status = "GL_FALSE"), program |-> name ]

\* The two programs, one after the other: a failed assertion ends the process.
_setup_programs(link_3d, link_fullscreen) ==
    LET p3d == _create_program("program:3d", link_3d)
        pfs == _create_program("program:fullscreen", link_fullscreen)
    IN  IF p3d.asserted
          THEN [asserted |-> TRUE, program |-> "program:0",
                fullscreen_program |-> "program:0"]
          ELSE [asserted |-> pfs.asserted, program |-> p3d.program,
                fullscreen_program |-> IF pfs.asserted THEN "program:0" ELSE pfs.program]

\* glDrawElements with the buffers of mesh bound, as the driver sees it: the
\* target, program, texture and World matrix current at the call.
_draw_mesh(mesh, state) ==
    [ call |-> "glDrawElements",
      vertex_buffer |-> mesh.vertex_buffer,
      index_buffer |-> mesh.index_buffer,
      framebuffer |-> state.framebuffer_binding,
      program |-> state.program,
      texture |-> state.texture_binding,
      world |-> state.world ]

(* ------------------------------------------------------------------ *)
(* External functions                                                 *)
(* ------------------------------------------------------------------ *)
\* mat4_perspective_fov(kPiDiv2, width/(float)height, 0.1f, 1000.0f)
projection_of(width, height) ==
    mat4_perspective_fov("kPiDiv2", aspect_ratio(width, height), "0.1f", "1000.0f")

\* What create_graphics leaves behind, from the GL state it starts in.  A
\* function that ends the process instead of returning leaves phase "aborted".
create_graphics_result(gl0, width, height, framebuffer_status, link_3d, link_fullscreen) ==
    LET fb == _setup_framebuffer(framebuffer_status)
        progs == _setup_programs(link_3d, link_fullscreen)
        allocated == [CallocGraphics EXCEPT !.width = width, !.height = height]
        with_fb == [allocated EXCEPT
                       !.color_renderbuffer = fb.color_renderbuffer,
                       !.depth_renderbuffer = fb.depth_renderbuffer,
                       !.framebuffer = fb.framebuffer]
        with_progs == [with_fb EXCEPT
                          !.program = progs.program,
                          !.fullscreen_program = progs.fullscreen_program]
        gl_after == [gl0 EXCEPT !.clear_color = kOffscreenClearColor,
                                !.framebuffer_binding = fb.framebuffer_binding,
                                !.texture_binding = fb.texture_binding]
        common == [gl |-> gl_after, gl_calls |-> fb.calls, diagnostic |-> fb.diagnostic]
    IN  IF ~fb.returns
          THEN common @@ [phase |-> "aborted", fatal |-> "framebuffer",
                          graphics |-> allocated]
        ELSE IF progs.asserted
          THEN common @@ [phase |-> "aborted", fatal |-> "link",
                          graphics |-> with_progs]
        ELSE common @@
             [phase |-> "ready", fatal |-> "none",
              graphics |->
                  [with_progs EXCEPT
                      !.projection_matrix = projection_of(width, height),
                      !.view_transform = transform_zero,
                      !.cube_mesh = kCubeMesh,
                      !.quad_mesh = kQuadMesh]]

create_graphics(width, height, framebuffer_status, link_3d, link_fullscreen) ==
    LET r == create_graphics_result(gl, width, height, framebuffer_status,
                                    link_3d, link_fullscreen)
    IN  /\ phase = "uncreated"
        /\ phase' = r.phase
        /\ fatal' = r.fatal
        /\ graphics' = r.graphics
        /\ gl' = r.gl
        /\ gl_calls' = r.gl_calls
        /\ diagnostic' = r.diagnostic

\* Faulty variant: the count is raised only after the assertion has passed.
add_render_command_check_first(mesh, diffuse, transform) ==
    LET index == graphics.num_commands
    IN  /\ phase = "ready"
        /\ gl_calls' = <<>>
        /\ UNCHANGED <<gl, diagnostic>>
        /\ IF index < MAX_RENDER_COMMANDS
             THEN /\ graphics' = [graphics EXCEPT
                                     !.num_commands = index + 1,
                                     !.commands[index] =
                                         [transform |-> transform, mesh |-> mesh,
                                          diffuse |-> diffuse]]
                  /\ UNCHANGED <<phase, fatal>>
             ELSE /\ UNCHANGED graphics
                  /\ phase' = "aborted"
                  /\ fatal' = "commands"

\* int index = num_commands++; assert(index < MAX_RENDER_COMMANDS); the stores
add_render_command(mesh, diffuse, transform) ==
    LET index == graphics.num_commands
        counted == [graphics EXCEPT !.num_commands = index + 1]
    IN  /\ phase = "ready"
        /\ gl_calls' = <<>>
        /\ UNCHANGED <<gl, diagnostic>>
        /\ IF index < MAX_RENDER_COMMANDS
             THEN /\ graphics' = [counted EXCEPT
                                     !.commands[index] =
                                         [transform |-> transform, mesh |-> mesh,
                                          diffuse |-> diffuse]]
                  /\ UNCHANGED <<phase, fatal>>
             ELSE /\ graphics' = counted
                  /\ phase' = "aborted"
                  /\ fatal' = "commands"

\* Faulty variant: assert(index <= MAX_LIGHTS), one light too many gets by.
add_directional_light_off_by_one(light) ==
    LET index == graphics.num_lights
        counted == [graphics EXCEPT !.num_lights = index + 1]
    IN  /\ phase = "ready"
        /\ gl_calls' = <<>>
        /\ UNCHANGED <<gl, diagnostic>>
        /\ IF index <= MAX_LIGHTS
             THEN /\ graphics' = [counted EXCEPT
                                     !.lights = [i \in LightSlots |->
                                                   IF i = index THEN light ELSE @[i]]]
                  /\ UNCHANGED <<phase, fatal>>
             ELSE /\ graphics' = counted
                  /\ phase' = "aborted"
                  /\ fatal' = "lights"

\* int index = num_lights++; assert(index < MAX_LIGHTS); the store
add_directional_light(light) ==
    LET index == graphics.num_lights
        counted == [graphics EXCEPT !.num_lights = index + 1]
    IN  /\ phase = "ready"
        /\ gl_calls' = <<>>
        /\ UNCHANGED <<gl, diagnostic>>
        /\ IF index < MAX_LIGHTS
             THEN /\ graphics' = [counted EXCEPT !.lights[index] = light]
                  /\ UNCHANGED <<phase, fatal>>
             ELSE /\ graphics' = counted
                  /\ phase' = "aborted"
                  /\ fatal' = "lights"

\* Faulty variant: the argument is stored in the wrong member of struct Graphics.
set_view_transform_wrong_member(view) ==
    /\ phase = "ready"
    /\ graphics' = [graphics EXCEPT !.projection_matrix = transform_get_matrix(view)]
    /\ gl_calls' = <<>>
    /\ UNCHANGED <<phase, fatal, gl, diagnostic>>

set_view_transform(view) ==
    /\ phase = "ready"
    /\ graphics' = [graphics EXCEPT !.view_transform = view]
    /\ gl_calls' = <<>>
    /\ UNCHANGED <<phase, fatal, gl, diagnostic>>

\* Faulty variant: the transform's matrix is uploaded without being inverted.
ViewMatrixNotInverted ==
    transform_get_matrix(graphics.view_transform)

\* Mat4 view_matrix = mat4_inverse(transform_get_matrix(graphics->view_transform))
ViewMatrix ==
    mat4_inverse(transform_get_matrix(graphics.view_transform))

\* Faulty variant: the composite pass always goes to framebuffer 0.
CompositeTargetZero(defaultFBO) ==
    FBO_ZERO

\* glBindFramebuffer(GL_FRAMEBUFFER, defaultFBO): the target of the composite pass
CompositeTarget(defaultFBO) ==
    defaultFBO

\* Faulty variant: the loop runs from the last queued command down to the first.
RenderLoopSlotsReversed ==
    [ii \in 1 .. graphics.num_commands |-> graphics.num_commands - ii]

\* Faulty variant: the loop reads every slot that was ever written, stale or not.
RenderLoopSlotsWritten ==
    LET written == { i \in CommandSlots : graphics.commands[i].mesh # NULL }
    IN  [ii \in 1 .. Cardinality(written) |-> ii - 1]

\* for(ii=0; ii<graphics->num_commands; ++ii): the slots read, in loop order
RenderLoopSlots ==
    [ii \in 1 .. graphics.num_commands |-> ii - 1]

\* Faulty variants: a count is left as it was.
CommandsKeptAfterRender == graphics.num_commands
LightsKeptAfterRender == graphics.num_lights

\* graphics->num_commands = 0; graphics->num_lights = 0; after the loop
CommandsAfterRender == 0
LightsAfterRender == 0

render_graphics ==
    LET view_matrix == ViewMatrix
        \* glGetIntegerv(GL_FRAMEBUFFER_BINDING, &defaultFBO)
        defaultFBO == gl.framebuffer_binding
        target == CompositeTarget(defaultFBO)
        \* pass 1: the offscreen framebuffer and the 3D program
        setup ==
            << [call |-> "glBindFramebuffer", framebuffer |-> graphics.framebuffer],
               [call |-> "glClear", framebuffer |-> graphics.framebuffer,
                color |-> kOffscreenClearColor],
               [call |-> "glUseProgram", program |-> graphics.program],
               [call |-> "glUniformMatrix4fv", uniform |-> "Projection",
                value |-> graphics.projection_matrix],
               [call |-> "glUniformMatrix4fv", uniform |-> "View",
                value |-> view_matrix],
               [call |-> "glUniform3fv", uniform |-> "Lights[0].direction",
                count |-> graphics.num_lights, value |-> graphics.lights],
               [call |-> "glUniform1i", uniform |-> "NumLights",
                value |-> graphics.num_lights] >>
        slots == RenderLoopSlots
        draws ==
            [k \in 1 .. Len(slots) |->
                LET command == graphics.commands[slots[k]]
                    model == transform_get_matrix(command.transform)
                IN  _draw_mesh(command.mesh,
                               [framebuffer_binding |-> graphics.framebuffer,
                                program |-> graphics.program,
                                texture_binding |-> command.diffuse.texture,
                                world |-> model])]
        \* pass 2: back to the framebuffer bound at entry, the fullscreen quad
        composite ==
            << [call |-> "glBindFramebuffer", framebuffer |-> target],
               [call |-> "glClear", framebuffer |-> target,
                color |-> kCompositeClearColor],
               [call |-> "glUseProgram", program |-> graphics.fullscreen_program],
               _draw_mesh(graphics.quad_mesh,
                          [framebuffer_binding |-> target,
                           program |-> graphics.fullscreen_program,
                           texture_binding |-> graphics.color_renderbuffer,
                           world |-> "none"]) >>
    IN  /\ phase = "ready"
        /\ gl_calls' = setup \o draws \o composite
        /\ graphics' = [graphics EXCEPT !.num_commands = CommandsAfterRender,
                                        !.num_lights = LightsAfterRender]
        /\ gl' = [gl EXCEPT !.framebuffer_binding = target,
                            !.clear_color = kCompositeClearColor,
                            !.program = graphics.fullscreen_program,
                            !.texture_binding = TEXTURE_ZERO]
        /\ UNCHANGED <<phase, fatal, diagnostic>>

\* The host binds its own render target (what GL_FRAMEBUFFER_BINDING answers
\* at line 280 is whatever the host bound last).
host_bind_framebuffer(framebuffer) ==
    /\ phase = "ready"
    /\ gl.framebuffer_binding # framebuffer
    /\ gl' = [gl EXCEPT !.framebuffer_binding = framebuffer]
    /\ gl_calls' = <<>>
    /\ UNCHANGED <<phase, fatal, graphics, diagnostic>>

(* ------------------------------------------------------------------ *)
(* The caller's record of what it did                                 *)
(* ------------------------------------------------------------------ *)
\* any operation but a render: the record of the latest render's start is dropped
HistoryCall ==
    [history EXCEPT !.frame = NoFrame]

\* a submission of command cmd; tracked submissions get a serial
HistorySubmit(cmd, tracked) ==
    LET index == graphics.num_commands
        s == history.serial + 1
        counted == [HistoryCall EXCEPT
                       !.command_submissions = @ + 1]
    IN  IF ~tracked THEN counted
        ELSE [counted EXCEPT
                 !.submitted = Append(@, cmd),
                 !.serial = s,
                 !.slot_serial = IF index \in CommandSlots THEN (index :> s) @@ @ ELSE @,
                 !.draw_count = (s :> 0) @@ @]

HistoryLight ==
    [HistoryCall EXCEPT !.light_submissions = @ + 1]

HistoryView(view) ==
    [HistoryCall EXCEPT !.last_view_set = <<view>>,
                        !.views_set = IF @ = "none" THEN "one" ELSE "many"]

\* a render: what it started from, and which submissions its loop read
HistoryRender(graphics_after) ==
    LET slots == RenderLoopSlots
        reads(s) == { k \in 1 .. Len(slots) :
                        /\ slots[k] \in DOMAIN history.slot_serial
                        /\ history.slot_serial[slots[k]] = s }
    IN  [history EXCEPT
            !.command_submissions = 0,
            !.light_submissions = 0,
            !.submitted = <<>>,
            !.serial_at_render = history.serial,
            !.draw_count = [s \in DOMAIN @ |-> @[s] + Cardinality(reads(s))],
            !.rendered = TRUE,
            !.views_set = "none",
            !.frame = [ commands |-> history.command_submissions,
                        lights |-> history.light_submissions,
                        views_set |-> history.views_set,
                        submitted |-> history.submitted,
                        binding |-> gl.framebuffer_binding,
                        repeat |-> /\ history.rendered
                                   /\ history.command_submissions = 0
                                   /\ history.light_submissions = 0,
                        context_unchanged |-> (graphics_after = graphics),
                        view |-> history.last_view_set ]]

(* ------------------------------------------------------------------ *)
(* Spec: the caller of a context created at 800x600, which submits,   *)
(* sets the view, binds a target and renders in any order             *)
(* ------------------------------------------------------------------ *)
GLAtStart ==
    [framebuffer_binding |-> FBO_ZERO, texture_binding |-> TEXTURE_ZERO,
     program |-> "program:0", clear_color |-> ZeroBytes]

\* after create_graphics(800, 600) with a complete framebuffer and linked programs
InitCreated ==
    LET r == create_graphics_result(GLAtStart, 800, 600, "GL_FRAMEBUFFER_COMPLETE",
                                    "GL_TRUE", "GL_TRUE")
    IN  /\ phase = r.phase
        /\ fatal = r.fatal
        /\ graphics = r.graphics
        /\ gl = r.gl
        /\ gl_calls = r.gl_calls
        /\ diagnostic = r.diagnostic
        /\ history = [NoHistory EXCEPT
                          !.created_size = <<800, 600>>,
                          !.created_projection = r.graphics.projection_matrix]

Submit ==
    \E cmd \in DrawInputs :
        /\ history.command_submissions < MaxSubmit
        /\ history.serial < MaxSubmissions
        /\ add_render_command(cmd.mesh, cmd.diffuse, cmd.transform)
        /\ history' = HistorySubmit(cmd, TRUE)

SubmitLight ==
    \E light \in LightInputs :
        /\ history.light_submissions < MaxLightSubmit
        /\ add_directional_light(light)
        /\ history' = HistoryLight

SetView ==
    \E view \in Transforms :
        /\ set_view_transform(view)
        /\ history' = HistoryView(view)

Render ==
    /\ render_graphics
    /\ history' = HistoryRender(graphics')

HostBind ==
    \E framebuffer \in HostFramebuffers :
        /\ host_bind_framebuffer(framebuffer)
        /\ history' = HistoryCall

Next ==
    \/ Submit
    \/ SubmitLight
    \/ SetView
    \/ Render
    \/ HostBind

Spec == InitCreated /\ [][Next]_vars

(* ------------------------------------------------------------------ *)
(* SpecCreate: a caller that creates a context of any size, with any  *)
(* framebuffer status and link results, and then draws frames of at   *)
(* most one command                                                   *)
(* ------------------------------------------------------------------ *)
Init ==
    /\ phase = "uncreated"
    /\ fatal = "none"
    /\ graphics = CallocGraphics
    /\ gl = GLAtStart
    /\ gl_calls = <<>>
    /\ diagnostic = "none"
    /\ history = NoHistory

Create ==
    \E size \in Sizes, status \in FramebufferStatuses,
       link_3d \in LinkStatuses, link_fullscreen \in LinkStatuses :
        /\ create_graphics(size[1], size[2], status, link_3d, link_fullscreen)
        /\ history' = [HistoryCall EXCEPT
                          !.created_size = size, !.created_status = status,
                          !.created_links = <<link_3d, link_fullscreen>>,
                          !.created_projection = graphics'.projection_matrix]

SubmitOne ==
    \E cmd \in DrawInputs :
        /\ history.command_submissions = 0
        /\ add_render_command(cmd.mesh, cmd.diffuse, cmd.transform)
        /\ history' = HistorySubmit(cmd, FALSE)

NextCreate ==
    \/ Create
    \/ SubmitOne
    \/ SubmitLight
    \/ SetView
    \/ Render
    \/ HostBind

SpecCreate == Init /\ [][NextCreate]_vars

(* ------------------------------------------------------------------ *)
(* SpecCap: a caller that keeps submitting one command and one light  *)
(* into the 800x600 context, up to and past the capacities, and       *)
(* renders when both queues are full                                  *)
(* ------------------------------------------------------------------ *)
Fill ==
    /\ add_render_command(FillDraw.mesh, FillDraw.diffuse, FillDraw.transform)
    /\ history' = HistorySubmit(FillDraw, FALSE)

FillLights ==
    /\ add_directional_light(FillLight)
    /\ history' = HistoryLight

RenderFull ==
    /\ graphics.num_commands = MAX_RENDER_COMMANDS
    /\ graphics.num_lights = MAX_LIGHTS
    /\ render_graphics
    /\ history' = HistoryRender(graphics')

NextCap ==
    \/ Fill
    \/ FillLights
    \/ RenderFull

SpecCap == InitCreated /\ [][NextCap]_vars

(* ------------------------------------------------------------------ *)
(* Reading the driver's record                                        *)
(* ------------------------------------------------------------------ *)
IsDraw(c) == c.call = "glDrawElements"
IsClear(c) == c.call = "glClear"
IsUpload(c, name) == c.call = "glUniformMatrix4fv" /\ c.uniform = name

Draws == SelectSeq(gl_calls, IsDraw)
Clears == SelectSeq(gl_calls, IsClear)
IsViewUpload(c) == IsUpload(c, "View")
IsProjectionUpload(c) == IsUpload(c, "Projection")
ViewUploads == SelectSeq(gl_calls, IsViewUpload)
ProjectionUploads == SelectSeq(gl_calls, IsProjectionUpload)

\* the latest operation was a render_graphics call
JustRendered == history.frame.binding # "none"

(* ------------------------------------------------------------------ *)
(* Properties                                                         *)
(* ------------------------------------------------------------------ *)

\* C1: counting the submissions since the latest render, the command-capacity
\* assertion has fired exactly when 1025 draw commands have been submitted, and
\* the light-capacity assertion exactly when 65 lights have been; so the 1025th
\* command and the 65th light trigger it and no earlier submission does.
C1_CapacityAssertion ==
    /\ (fatal = "commands") <=> (history.command_submissions = MAX_RENDER_COMMANDS + 1)
    /\ (fatal = "lights") <=> (history.light_submissions = MAX_LIGHTS + 1)
    /\ history.command_submissions <= MAX_RENDER_COMMANDS + 1
    /\ history.light_submissions <= MAX_LIGHTS + 1
    /\ (phase = "aborted") <=> (fatal # "none")

\* the 1025th command has just been refused, after 64 lights were accepted
C1_Witness ==
    /\ fatal = "commands"
    /\ history.command_submissions = MAX_RENDER_COMMANDS + 1
    /\ history.light_submissions = MAX_LIGHTS

\* C2 as stated: in every reachable state, the one in which a capacity assertion
\* has just fired included, num_commands <= 1024 and num_lights <= 64.
C2_Original ==
    /\ graphics.num_commands <= MAX_RENDER_COMMANDS
    /\ graphics.num_lights <= MAX_LIGHTS

\* C2 amended (assertions enabled): while no capacity assertion has fired,
\* num_commands <= 1024 and
\* num_lights <= 64; in the state in which the assertion of a queue has just
\* fired, that queue's count is its capacity plus one (1025, 65), because the
\* count is raised before the assertion is evaluated, and the other queue's
\* count is within its capacity.
C2_Amended ==
    /\ fatal \notin {"commands", "lights"} =>
           /\ graphics.num_commands <= MAX_RENDER_COMMANDS
           /\ graphics.num_lights <= MAX_LIGHTS
    /\ fatal = "commands" =>
           /\ graphics.num_commands = MAX_RENDER_COMMANDS + 1
           /\ graphics.num_lights <= MAX_LIGHTS
    /\ fatal = "lights" =>
           /\ graphics.num_lights = MAX_LIGHTS + 1
           /\ graphics.num_commands <= MAX_RENDER_COMMANDS

\* the command assertion has just fired in a frame after a render
C2_Witness ==
    /\ fatal = "commands"
    /\ graphics.num_commands = MAX_RENDER_COMMANDS + 1
    /\ history.rendered

\* C3: the i-th indexed draw into the offscreen framebuffer uses the mesh, the
\* texture and the transform (as the World matrix) of the i-th command submitted
\* since the previous render, and there are as many such draws as submissions.
C3_DrawsInSubmissionOrder ==
    JustRendered =>
        LET submitted == history.frame.submitted
            offscreen == SubSeq(Draws, 1, Len(Draws) - 1)
        IN  /\ Len(Draws) = Len(submitted) + 1
            /\ \A i \in 1 .. Len(submitted) :
                  /\ offscreen[i].framebuffer = "framebuffer:offscreen"
                  /\ offscreen[i].vertex_buffer = submitted[i].mesh.vertex_buffer
                  /\ offscreen[i].index_buffer = submitted[i].mesh.index_buffer
                  /\ offscreen[i].texture = submitted[i].diffuse.texture
                  /\ offscreen[i].world = transform_get_matrix(submitted[i].transform)

\* a render of two different commands
C3_Witness ==
    /\ JustRendered
    /\ Len(history.frame.submitted) >= 2
    /\ history.frame.submitted[1] # history.frame.submitted[2]
    /\ Len(Draws) >= 3

\* C4: when render_graphics has just returned from a frame of at most 1024
\* submitted commands and at most 64 submitted lights, num_commands and
\* num_lights are both 0.
C4_CountsResetByRender ==
    ( /\ JustRendered
      /\ history.frame.commands <= MAX_RENDER_COMMANDS
      /\ history.frame.lights <= MAX_LIGHTS )
    => /\ graphics.num_commands = 0
       /\ graphics.num_lights = 0

\* a render of exactly 1024 commands and 64 lights has just returned
C4_Witness ==
    /\ JustRendered
    /\ history.frame.commands = MAX_RENDER_COMMANDS
    /\ history.frame.lights = MAX_LIGHTS
    /\ graphics.num_commands = 0
    /\ graphics.num_lights = 0

\* C5: a render called with n commands queued issues n + 1 indexed draws: the
\* first n while the offscreen framebuffer is bound, then one, of the quad mesh,
\* while the framebuffer bound before the call is bound again; and that
\* framebuffer is the one bound after the call.
C5_TwoPasses ==
    JustRendered =>
        LET n == history.frame.commands
            before == history.frame.binding
        IN  /\ Len(Draws) = n + 1
            /\ \A i \in 1 .. n : Draws[i].framebuffer = "framebuffer:offscreen"
            /\ Draws[n + 1].framebuffer = before
            /\ Draws[n + 1].vertex_buffer = kQuadMesh.vertex_buffer
            /\ Draws[n + 1].index_buffer = kQuadMesh.index_buffer
            /\ \A i \in 1 .. Len(Draws) :
                  Draws[i].framebuffer \in {"framebuffer:offscreen", before}
            /\ gl.framebuffer_binding = before

\* a render of two commands inside the host's own render target
C5_Witness ==
    /\ JustRendered
    /\ history.frame.commands = 2
    /\ history.frame.binding = "framebuffer:host_target"
    /\ Len(Draws) = 3

\* C6: a render that follows one or more set_view_transform calls uploads, once,
\* as the View matrix, the inverse of the matrix of the transform passed to the
\* latest of those calls.
C6_ViewIsInverseOfLastSet ==
    (JustRendered /\ history.frame.view # <<>>) =>
        /\ Len(ViewUploads) = 1
        /\ ViewUploads[1].value =
               [fn |-> "mat4_inverse",
                arg |-> [fn |-> "transform_get_matrix",
                         arg |-> history.frame.view[1]]]

\* a render after several set_view_transform calls in one frame, the latest of
\* them with a transform other than the one create_graphics stored
C6_Witness ==
    /\ JustRendered
    /\ history.frame.views_set = "many"
    /\ history.frame.view = << [position |-> "p1", scale |-> "two"] >>
    /\ history.frame.commands > 0

C9_ConsumedExactlyOnce ==
    \A s \in DOMAIN history.draw_count :
        history.draw_count[s] = IF s <= history.serial_at_render THEN 1 ELSE 0

\* a render of one new command while slot 1 still holds a command of the
\* previous frame
C9_Witness ==
    /\ JustRendered
    /\ history.frame.commands = 1
    /\ history.serial_at_render >= 3
    /\ graphics.commands[1].mesh # NULL
    /\ \A s \in DOMAIN history.draw_count : history.draw_count[s] = 1

\* C8: the projection matrix of a created context is the perspective matrix of
\* (kPiDiv2, width/height, 0.1, 1000) for the width and height create_graphics
\* was given, it is the value create_graphics stored, whatever was called
\* since, and a render uploads that value, once, as Projection.
C8_ProjectionFixedAtCreation ==
    phase = "ready" =>
        LET p == graphics.projection_matrix
            width == history.created_size[1]
            height == history.created_size[2]
        IN  /\ p.fn = "mat4_perspective_fov"
            /\ p.fov = "kPiDiv2"
            /\ p.aspect[1] * height = p.aspect[2] * width
            /\ p.nearPlane = "0.1f"
            /\ p.farPlane = "1000.0f"
            /\ p = history.created_projection
            /\ JustRendered =>
                  /\ Len(ProjectionUploads) = 1
                  /\ ProjectionUploads[1].value = history.created_projection

\* a second render of a 600x600 context, after a frame that used every operation
C8_Witness ==
    /\ JustRendered
    /\ history.frame.repeat
    /\ history.created_size = <<600, 600>>
    /\ history.last_view_set # <<>>
    /\ graphics.commands[0].mesh # NULL
    /\ graphics.lights[0] # ZeroBytes
    /\ Len(ProjectionUploads) = 1

\* C10: whatever the completeness check answers, create_graphics goes on to the
\* programs: the process ends in create_graphics exactly when a link fails, a
\* context whose programs linked is ready, render_graphics can be called on every
\* ready context and runs both passes; an ended process ended on a link failure
\* or on a queue capacity.
C10_IncompleteFramebufferNotFatal ==
    /\ phase = "aborted" => fatal \in {"link", "commands", "lights"}
    /\ phase # "uncreated" =>
          /\ (fatal = "link") <=>
                 ("GL_FALSE" \in {history.created_links[1], history.created_links[2]})
          /\ (diagnostic = "none") <=>
                 (history.created_status = "GL_FRAMEBUFFER_COMPLETE")
    /\ phase = "ready" => ENABLED Render
    /\ JustRendered =>
          /\ Len(Clears) = 2
          /\ Clears[1].framebuffer = "framebuffer:offscreen"
          /\ Clears[2].framebuffer = history.frame.binding
          /\ Len(Draws) = history.frame.commands + 1

\* a render of one command on a context whose framebuffer was reported unsupported
C10_Witness ==
    /\ JustRendered
    /\ history.created_status = "GL_FRAMEBUFFER_UNSUPPORTED"
    /\ diagnostic = "Unsupported Framebuffer Configuration"
    /\ history.frame.commands = 1
    /\ Len(Draws) = 2

====
